---- MODULE Spec2Model ----
(***************************************************************************)
(* Firm power dispatch engine (src/firm_power_dispatch.py).                *)
(*                                                                         *)
(* run_dispatch simulates a hybrid plant (hydro + PV + wind + BESS) hour   *)
(* by hour against a firm power target.  The module models one call of    *)
(* run_dispatch: the entry checks and initialisation, one action per       *)
(* iteration of the hourly loop, and the reduction to the run summary.     *)
(*                                                                         *)
(* Numbers.  The program computes with floats; the model computes with     *)
(* exact rationals <<n, d>> (d > 0, lowest terms), so an equality of the   *)
(* model is an equality "within floating-point tolerance" of the program.  *)
(***************************************************************************)
EXTENDS Integers, Sequences, FiniteSets, TLC

(***************************************************************************)
(* Exact rational arithmetic.                                              *)
(***************************************************************************)
Abs(x) == IF x < 0 THEN -x ELSE x

RECURSIVE GCD(_, _)
GCD(a, b) == IF b = 0 THEN a ELSE GCD(b, a % b)

Norm(n, d) ==
    LET g == GCD(Abs(n), d) IN <<n \div g, d \div g>>

Frac(n, d) == IF d < 0 THEN Norm(-n, -d) ELSE Norm(n, d)

R(n) == <<n, 1>>

RAdd(a, b) == Norm(a[1] * b[2] + b[1] * a[2], a[2] * b[2])
RSub(a, b) == Norm(a[1] * b[2] - b[1] * a[2], a[2] * b[2])
RMul(a, b) == Norm(a[1] * b[1], a[2] * b[2])
RDiv(a, b) == Frac(a[1] * b[2], a[2] * b[1])
RLt(a, b) == a[1] * b[2] < b[1] * a[2]
RLe(a, b) == a[1] * b[2] <= b[1] * a[2]
RGt(a, b) == RLt(b, a)
RGe(a, b) == RLe(b, a)
RMin(a, b) == IF RLe(a, b) THEN a ELSE b
RMax(a, b) == IF RGe(a, b) THEN a ELSE b
RMin3(a, b, c) == RMin(RMin(a, b), c)

RECURSIVE Pow10(_)
Pow10(k) == IF k = 0 THEN 1 ELSE 10 * Pow10(k - 1)

\* Python round(x, k): nearest multiple of 10^-k, ties to the even one.
Round(x, k) ==
    LET s   == Pow10(k)
        n   == x[1] * s
        d   == x[2]
        f   == n \div d
        rem == n - f * d
        up  == \/ 2 * rem > d
               \/ 2 * rem = d /\ f % 2 = 1
    IN  Frac(IF up THEN f + 1 ELSE f, s)

(***************************************************************************)
(* Bounds and input domains.                                               *)
(***************************************************************************)
MaxHours == 3

\* <<pv_raw, wind_raw>> of one hour.  PV may be a negative night reading,
\* wind is taken as supplied.
ProfileHours == { <<150, 150>>, <<60, 40>>, <<-1, 0>>, <<0, -5>> }

Targets      == {0, 100, 500}
Hydros       == {0, 100, 250}
BessSizes    == {0, 200}
BessPowers   == {100, 500}
Efficiencies == { <<9, 10>>, <<1, 1>> }

\* The sequences over S of 1..n elements.
RECURSIVE SeqsUpTo(_, _)
SeqsUpTo(S, n) ==
    IF n = 1 THEN { <<x>> : x \in S }
    ELSE LET shorter == SeqsUpTo(S, n - 1)
         IN  shorter \cup { Append(s, x) : s \in { t \in shorter : Len(t) = n - 1 }, x \in S }


(***************************************************************************)
(* SystemConfig and the program's literals.                                *)
(***************************************************************************)
\* The configurations a run is called with.  The capacities (informational)
\* and h2_conversion_factor keep their defaults.
SystemConfig ==
    [ electrolyzer_capacity_mw : { R(t) : t \in Targets },
      hydro_power_mw           : { R(x) : x \in Hydros },
      bess_max_power_mw        : { R(p) : p \in BessPowers },
      bess_charge_eff          : Efficiencies,
      bess_discharge_eff       : Efficiencies,
      pv_capacity_mw           : { R(500) },
      wind_capacity_mw         : { R(1104) },
      h2_conversion_factor     : { R(50) } ]

\* The literal 250.0 of the SUPPLEMENTAL tier (threshold and output).
SupplementalMW == 250

\* bess_max of a run without storage (1e-6), and the SOC guard (1e-5).
DisabledBessMax == <<1, 1000000>>
SocGuard        == <<1, 100000>>

HoursPerDay == 24

Zero == R(0)

(***************************************************************************)
(* State of one call of run_dispatch.                                      *)
(***************************************************************************)
VARIABLES
    pv_profile, wind_profile, bess_size_mwh, config,    \* the arguments
    pc,                                                 \* "start", "loop", "done", "raised"
    error,                                              \* the exception raised, or "none"
    h,                                                  \* hours simulated so far
    bess_enabled, bess_max, bess_capacity,              \* battery state
    total_energy_mwh, hours_full, hours_partial, hours_shutdown,
    h2_from_full, h2_from_partial,
    total_charge_loss, total_discharge_loss,
    total_curtailment, total_renewable_generated,       \* performance counters
    arr,                                                \* the hourly table, one record per hour
    summary                                             \* the run summary, or the empty record

args     == <<pv_profile, wind_profile, bess_size_mwh, config>>
battery  == <<bess_enabled, bess_max, bess_capacity>>
counters == <<total_energy_mwh, hours_full, hours_partial, hours_shutdown,
              h2_from_full, h2_from_partial, total_charge_loss,
              total_discharge_loss, total_curtailment, total_renewable_generated>>

\* State of one call of run_pv_sensitivity (and of the run_bess_sensitivity
\* calls it makes).
VARIABLES
    pv_profile_1000mw, sw_wind_profile, bess_sizes,     \* the arguments
    caller_config, pv_cases, progress_callback,
    pv_ref_mw,                                          \* the capacity the caller's profile represents
    call_style,                                         \* "direct", or "app" (src/app.py's call)
    sw_pc,                                              \* position in the sweep, "idle" outside one
    sw_error,                                           \* the exception leaving the sweep, or "none"
    case_idx,                                           \* scenarios of pv_cases completed
    idx,                                                \* enumerate(bess_sizes) index
    scaled_pv, cfg,                                     \* the scenario's profile and configuration
    results, hourly_data,                               \* locals of run_bess_sensitivity
    pv_results,                                         \* label -> {summary, hourly}
    notifications,                                      \* the progress_callback calls made so far
    runs                                                \* the run_dispatch calls made so far

sweep_args == <<pv_profile_1000mw, sw_wind_profile, bess_sizes, caller_config,
                pv_cases, progress_callback, pv_ref_mw, call_style>>
sweep == <<sweep_args, sw_pc, sw_error, case_idx, idx, scaled_pv, cfg, results,
           hourly_data, pv_results, notifications, runs>>

\* State of one call of get_representative_days.
VARIABLES
    hourly_df,                                          \* the argument
    sel_pc,                                             \* "idle", "call" or "done"
    typical_day, low_renewable_day                      \* the two tables returned

selector == <<hourly_df, sel_pc, typical_day, low_renewable_day>>

vars     == <<args, pc, error, h, battery, counters, arr, summary, sweep, selector>>

\* The empty mapping (a dict with no key).
EmptyMap == [k \in {} |-> {}]

\* No sweep is in progress.
SweepIdle ==
    /\ pv_profile_1000mw = <<>>
    /\ sw_wind_profile = <<>>
    /\ bess_sizes = <<>>
    /\ caller_config = [ unused |-> TRUE ]
    /\ pv_cases = <<>>
    /\ progress_callback = FALSE
    /\ pv_ref_mw = Zero
    /\ call_style = "direct"
    /\ sw_pc = "idle"
    /\ sw_error = "none"
    /\ case_idx = 0
    /\ idx = 0
    /\ scaled_pv = <<>>
    /\ cfg = [ unused |-> TRUE ]
    /\ results = <<>>
    /\ hourly_data = EmptyMap
    /\ pv_results = EmptyMap
    /\ notifications = <<>>
    /\ runs = <<>>

\* No day selection is in progress.
SelectorIdle ==
    /\ hourly_df = <<>>
    /\ sel_pc = "idle"
    /\ typical_day = <<>>
    /\ low_renewable_day = <<>>

NoSummary == [ produced |-> FALSE ]

(***************************************************************************)
(* The hourly dispatch, as pure functions of the hour's inputs and the     *)
(* battery state carried over from the previous hour.                      *)
(***************************************************************************)
\* net_pv = max(0.0, pv_raw)
NetPV(pv_raw) == RMax(Zero, pv_raw)

\* hydro_to_elec = min(elec_cap, hydro_mw)
HydroToElec(elec_cap, hydro_mw) == RMin(elec_cap, hydro_mw)

\* bess_available_discharge = bess_capacity if bess_enabled else 0.0
BessAvailableDischarge(enabled, capacity) == IF enabled THEN capacity ELSE Zero

\* Variant: the stored energy counted without the discharge efficiency.
CombinedPower_NoDischargeEff(hydro_to_elec, renewable, bess_available_discharge, dis_eff) ==
    RAdd(RAdd(hydro_to_elec, renewable), bess_available_discharge)

\* combined_power = hydro_to_elec + renewable + bess_available_discharge * dis_eff
CombinedPower(hydro_to_elec, renewable, bess_available_discharge, dis_eff) ==
    RAdd(RAdd(hydro_to_elec, renewable), RMul(bess_available_discharge, dis_eff))

\* Variant: FIRM only when the combined power strictly exceeds the target.
OperationMode_StrictFirm(combined_power, elec_cap, hydro_mw) ==
    IF RGt(combined_power, elec_cap) THEN "FIRM"
    ELSE IF RGe(hydro_mw, R(SupplementalMW)) THEN "SUPPLEMENTAL"
    ELSE "SHUTDOWN"

\* The tier of the hour: the if / elif / else of the loop body.
OperationMode(combined_power, elec_cap, hydro_mw) ==
    IF RGe(combined_power, elec_cap) THEN "FIRM"
    ELSE IF RGe(hydro_mw, R(SupplementalMW)) THEN "SUPPLEMENTAL"
    ELSE "SHUTDOWN"

\* Variant: the SUPPLEMENTAL tier delivering half the target instead of 250.
ElectrolyzerMW_HalfTarget(mode, elec_cap) ==
    CASE mode = "FIRM"         -> elec_cap
      [] mode = "SUPPLEMENTAL" -> RDiv(elec_cap, R(2))
      [] mode = "SHUTDOWN"     -> Zero

\* electrolyzer_mw of each tier.
ElectrolyzerMW(mode, elec_cap) ==
    CASE mode = "FIRM"         -> elec_cap
      [] mode = "SUPPLEMENTAL" -> R(SupplementalMW)
      [] mode = "SHUTDOWN"     -> Zero

\* Variant: charging capped by the power limit only, not by the headroom.
ChargeBeforeEff_NoHeadroom(offered, bess_pwr, bess_available_space, chg_eff) ==
    RMin(offered, bess_pwr)

\* Variant: charging capped by the headroom only, not by the power limit.
ChargeBeforeEff_NoPowerLimit(offered, bess_pwr, bess_available_space, chg_eff) ==
    RMin(offered, RDiv(bess_available_space, chg_eff))

\* bess_in_before = min(offered, bess_pwr, bess_available_space / chg_eff)
ChargeBeforeEff(offered, bess_pwr, bess_available_space, chg_eff) ==
    RMin3(offered, bess_pwr, RDiv(bess_available_space, chg_eff))

\* Variant: the whole offered energy stored, the charge efficiency forgotten.
ChargeAfterEff_Lossless(bess_in_before, chg_eff) == bess_in_before

\* bess_in_after = bess_in_before * chg_eff
ChargeAfterEff(bess_in_before, chg_eff) == RMul(bess_in_before, chg_eff)

\* The charging block shared by the three tiers: `offered` is the energy on
\* offer (FIRM: remaining, SUPPLEMENTAL: renewable, SHUTDOWN: total_available).
ChargeBess(enabled, offered, capacity, max, bess_pwr, chg_eff) ==
    IF enabled /\ RGt(offered, Zero) /\ RLt(capacity, max)
    THEN LET bess_available_space == RSub(max, capacity)
             bess_in_before == ChargeBeforeEff(offered, bess_pwr, bess_available_space, chg_eff)
             bess_in_after  == ChargeAfterEff(bess_in_before, chg_eff)
         IN  [ bess_in_before   |-> bess_in_before,
               bess_in_after    |-> bess_in_after,
               bess_charge_loss |-> RSub(bess_in_before, bess_in_after),
               bess_capacity    |-> RAdd(capacity, bess_in_after),
               curtailment      |-> RSub(offered, bess_in_before) ]
    ELSE     [ bess_in_before   |-> Zero,
               bess_in_after    |-> Zero,
               bess_charge_loss |-> Zero,
               bess_capacity    |-> capacity,
               curtailment      |-> offered ]

\* Variant: the withdrawal not grossed up by the discharge efficiency.
DischargeBeforeEff_NoGrossUp(additional_shortfall, dis_eff, capacity) ==
    RMin(additional_shortfall, capacity)

\* bess_out_before = min(additional_shortfall / dis_eff, bess_capacity)
DischargeBeforeEff(additional_shortfall, dis_eff, capacity) ==
    RMin(RDiv(additional_shortfall, dis_eff), capacity)

\* Variant: the whole withdrawal delivered, the discharge efficiency forgotten.
DischargeAfterEff_Lossless(bess_out_before, dis_eff) == bess_out_before

\* bess_out_after = bess_out_before * dis_eff
DischargeAfterEff(bess_out_before, dis_eff) == RMul(bess_out_before, dis_eff)

\* Variant: the stored energy reduced by the delivered energy, not by the
\* withdrawal.
DischargeBess_DeliveredOnly(enabled, additional_shortfall, capacity, dis_eff) ==
    IF enabled
    THEN LET bess_out_before == DischargeBeforeEff(additional_shortfall, dis_eff, capacity)
             bess_out_after  == DischargeAfterEff(bess_out_before, dis_eff)
         IN  [ bess_out_before     |-> bess_out_before,
               bess_out_after      |-> bess_out_after,
               bess_discharge_loss |-> RSub(bess_out_before, bess_out_after),
               bess_capacity       |-> RSub(capacity, bess_out_after),
               bess_to_elec        |-> bess_out_after ]
    ELSE     [ bess_out_before     |-> Zero,
               bess_out_after      |-> Zero,
               bess_discharge_loss |-> Zero,
               bess_capacity       |-> capacity,
               bess_to_elec        |-> Zero ]

\* The discharging block of the FIRM tier when renewables fall short.
DischargeBess(enabled, additional_shortfall, capacity, dis_eff) ==
    IF enabled
    THEN LET bess_out_before == DischargeBeforeEff(additional_shortfall, dis_eff, capacity)
             bess_out_after  == DischargeAfterEff(bess_out_before, dis_eff)
         IN  [ bess_out_before     |-> bess_out_before,
               bess_out_after      |-> bess_out_after,
               bess_discharge_loss |-> RSub(bess_out_before, bess_out_after),
               bess_capacity       |-> RSub(capacity, bess_out_before),
               bess_to_elec        |-> bess_out_after ]
    ELSE     [ bess_out_before     |-> Zero,
               bess_out_after      |-> Zero,
               bess_discharge_loss |-> Zero,
               bess_capacity       |-> capacity,
               bess_to_elec        |-> Zero ]

NoCharge(capacity, curtailment) ==
    [ bess_in_before |-> Zero, bess_in_after |-> Zero, bess_charge_loss |-> Zero,
      bess_capacity |-> capacity, curtailment |-> curtailment ]

NoDischarge(capacity) ==
    [ bess_out_before |-> Zero, bess_out_after |-> Zero, bess_discharge_loss |-> Zero,
      bess_capacity |-> capacity, bess_to_elec |-> Zero ]

\* Variant: PV takes half of the shortfall whatever its share of renewable.
PVToElec_EvenSplit(net_pv, renewable, power_shortfall) ==
    IF RGt(renewable, Zero) THEN RDiv(power_shortfall, R(2)) ELSE Zero

\* PV / wind share of the shortfall when renewables cover it.
PVToElec(net_pv, renewable, power_shortfall) ==
    IF RGt(renewable, Zero) THEN RMul(RDiv(net_pv, renewable), power_shortfall) ELSE Zero

\* Variant: wind delivering all it generates when renewables cover the
\* shortfall.
WindToElec_AllWind(wind_raw, renewable, power_shortfall) == wind_raw

WindToElec(wind_raw, renewable, power_shortfall) ==
    IF RGt(renewable, Zero) THEN RMul(RDiv(wind_raw, renewable), power_shortfall) ELSE Zero

\* bess_soc = (bess_capacity / bess_max) * 100 if bess_max > 1e-5 else 0.0
BessSoc(capacity, max) ==
    IF RGt(max, SocGuard) THEN RMul(RDiv(capacity, max), R(100)) ELSE Zero

\* cf = (electrolyzer_mw / elec_cap) * 100 if elec_cap > 0 else 0.0
CapacityFactor(electrolyzer_mw, elec_cap) ==
    IF RGt(elec_cap, Zero) THEN RMul(RDiv(electrolyzer_mw, elec_cap), R(100)) ELSE Zero

\* h2_prod = electrolyzer_mw * 1000 / h2_conversion_factor
H2Production(electrolyzer_mw, h2_conversion_factor) ==
    RDiv(RMul(electrolyzer_mw, R(1000)), h2_conversion_factor)

\* One iteration of the hourly loop: the locals at the end of the body.
DispatchHour(conf, enabled, max, capacity, pv_raw, wind_raw) ==
    LET elec_cap  == conf.electrolyzer_capacity_mw
        hydro_mw  == conf.hydro_power_mw
        bess_pwr  == conf.bess_max_power_mw
        chg_eff   == conf.bess_charge_eff
        dis_eff   == conf.bess_discharge_eff
        net_pv    == NetPV(pv_raw)
        renewable == RAdd(net_pv, wind_raw)
        hydro_to_elec   == HydroToElec(elec_cap, hydro_mw)
        power_shortfall == RSub(elec_cap, hydro_to_elec)
        combined_power  ==
            CombinedPower(hydro_to_elec, renewable,
                          BessAvailableDischarge(enabled, capacity), dis_eff)
        mode       == OperationMode(combined_power, elec_cap, hydro_mw)
        sufficient == RGe(renewable, power_shortfall)
        chg == CASE mode = "FIRM" /\ sufficient ->
                      ChargeBess(enabled, RSub(renewable, power_shortfall),
                                 capacity, max, bess_pwr, chg_eff)
                 [] mode = "FIRM" /\ ~sufficient -> NoCharge(capacity, Zero)
                 [] mode = "SUPPLEMENTAL" ->
                      ChargeBess(enabled, renewable, capacity, max, bess_pwr, chg_eff)
                 [] mode = "SHUTDOWN" ->
                      ChargeBess(enabled, RAdd(hydro_mw, renewable),
                                 capacity, max, bess_pwr, chg_eff)
        dis == IF mode = "FIRM" /\ ~sufficient
               THEN DischargeBess(enabled, RSub(power_shortfall, renewable), capacity, dis_eff)
               ELSE NoDischarge(capacity)
        electrolyzer_mw == ElectrolyzerMW(mode, elec_cap)
    IN  [ pv_raw          |-> pv_raw,
          wind_raw        |-> wind_raw,
          renewable       |-> renewable,
          operation_mode  |-> mode,
          electrolyzer_mw |-> electrolyzer_mw,
          hydro_to_elec   |-> CASE mode = "FIRM"         -> hydro_to_elec
                                [] mode = "SUPPLEMENTAL" -> R(SupplementalMW)
                                [] mode = "SHUTDOWN"     -> Zero,
          pv_to_elec      |-> IF mode = "FIRM"
                              THEN IF sufficient
                                   THEN PVToElec(net_pv, renewable, power_shortfall)
                                   ELSE net_pv
                              ELSE Zero,
          wind_to_elec    |-> IF mode = "FIRM"
                              THEN IF sufficient
                                   THEN WindToElec(wind_raw, renewable, power_shortfall)
                                   ELSE wind_raw
                              ELSE Zero,
          bess_to_elec    |-> dis.bess_to_elec,
          bess_in_before  |-> chg.bess_in_before,
          bess_in_after   |-> chg.bess_in_after,
          bess_charge_loss |-> chg.bess_charge_loss,
          bess_out_before |-> dis.bess_out_before,
          bess_out_after  |-> dis.bess_out_after,
          bess_discharge_loss |-> dis.bess_discharge_loss,
          bess_capacity   |-> IF mode = "FIRM" /\ ~sufficient
                              THEN dis.bess_capacity ELSE chg.bess_capacity,
          curtailment     |-> chg.curtailment,
          bess_soc        |-> BessSoc(IF mode = "FIRM" /\ ~sufficient
                                      THEN dis.bess_capacity ELSE chg.bess_capacity, max),
          h2_prod         |-> H2Production(electrolyzer_mw, conf.h2_conversion_factor),
          cf              |-> CapacityFactor(electrolyzer_mw, elec_cap) ]

\* The row stored in the output arrays for hour `hour`.
HourlyRecord(hour, hydro_mw, x) ==
    [ Hour                          |-> hour,
      PV_MW                         |-> x.pv_raw,
      Wind_MW                       |-> x.wind_raw,
      Renewable_MW                  |-> x.renewable,
      Hydro_MW                      |-> hydro_mw,
      Net_Available_MW              |-> x.electrolyzer_mw,
      Electrolyzer_MW               |-> x.electrolyzer_mw,
      PV_to_Elec_MW                 |-> x.pv_to_elec,
      Wind_to_Elec_MW               |-> x.wind_to_elec,
      Hydro_to_Elec_MW              |-> x.hydro_to_elec,
      BESS_to_Elec_MW               |-> x.bess_to_elec,
      BESS_Charge_Before_Eff_MWh    |-> x.bess_in_before,
      BESS_Charge_After_Eff_MWh     |-> x.bess_in_after,
      BESS_Charge_Loss_MWh          |-> x.bess_charge_loss,
      BESS_Discharge_Before_Eff_MWh |-> x.bess_out_before,
      BESS_Discharge_After_Eff_MWh  |-> x.bess_out_after,
      BESS_Discharge_Loss_MWh       |-> x.bess_discharge_loss,
      BESS_SOC_pct                  |-> x.bess_soc,
      BESS_Capacity_MWh             |-> x.bess_capacity,
      Curtailment_MW                |-> x.curtailment,
      H2_Production_kg_per_h        |-> x.h2_prod,
      Capacity_Factor_pct           |-> x.cf,
      Operation_Mode                |-> x.operation_mode ]

(***************************************************************************)
(* run_dispatch as a state machine.                                        *)
(***************************************************************************)
RECURSIVE Column(_, _)
Column(hours, i) ==
    IF hours = <<>> THEN <<>> ELSE <<R(Head(hours)[i])>> \o Column(Tail(hours), i)

\* The call: two profiles of 1..MaxHours hours (a one-hour PV profile may
\* come with a wind profile one hour shorter or one hour longer, which the
\* entry assertion rejects), a battery size and a configuration.
Init ==
    /\ \E hours \in SeqsUpTo(ProfileHours, MaxHours) :
          /\ pv_profile = Column(hours, 1)
          /\ wind_profile \in
                { Column(hours, 2) } \cup
                (IF Len(hours) = 1 THEN { <<>>, Append(Column(hours, 2), Zero) } ELSE {})
    /\ bess_size_mwh \in { R(b) : b \in BessSizes }
    /\ config \in SystemConfig
    /\ pc = "start"
    /\ error = "none"
    /\ h = 0
    /\ bess_enabled = FALSE
    /\ bess_max = Zero
    /\ bess_capacity = Zero
    /\ total_energy_mwh = Zero
    /\ hours_full = 0
    /\ hours_partial = 0
    /\ hours_shutdown = 0
    /\ h2_from_full = Zero
    /\ h2_from_partial = Zero
    /\ total_charge_loss = Zero
    /\ total_discharge_loss = Zero
    /\ total_curtailment = Zero
    /\ total_renewable_generated = Zero
    /\ arr = <<>>
    /\ summary = NoSummary
    /\ SweepIdle
    /\ SelectorIdle

n_hours == Len(pv_profile)

\* Variant: no length assertion, the loop is entered with unequal profiles.
EnterMismatch_NoAssert ==
    /\ pc = "start"
    /\ Len(wind_profile) # n_hours
    /\ pc' = "loop"
    /\ UNCHANGED <<args, error, h, battery, counters, arr, summary, sweep, selector>>

\* assert len(wind_profile) == n_hours fails: AssertionError, nothing produced.
EnterMismatch ==
    /\ pc = "start"
    /\ Len(wind_profile) # n_hours
    /\ pc' = "raised"
    /\ error' = "AssertionError"
    /\ UNCHANGED <<args, h, battery, counters, arr, summary, sweep, selector>>

\* Variant: the battery keeps what the previous run of the process left in it.
InitialBessCapacity_LeftOver(enabled, max) == IF enabled THEN RMin(bess_capacity, max) ELSE Zero

\* bess_capacity = bess_max if bess_enabled else 0.0
InitialBessCapacity(enabled, max) == IF enabled THEN max ELSE Zero

\* Entry: the length assertion holds; config shortcuts, battery and counters
\* are initialised.
Enter ==
    /\ pc = "start"
    /\ Len(wind_profile) = n_hours
    /\ bess_enabled' = RGt(bess_size_mwh, Zero)
    /\ bess_capacity' = InitialBessCapacity(RGt(bess_size_mwh, Zero), bess_size_mwh)
    /\ bess_max' = IF RGt(bess_size_mwh, Zero) THEN bess_size_mwh ELSE DisabledBessMax
    /\ total_energy_mwh' = Zero
    /\ hours_full' = 0
    /\ hours_partial' = 0
    /\ hours_shutdown' = 0
    /\ h2_from_full' = Zero
    /\ h2_from_partial' = Zero
    /\ total_charge_loss' = Zero
    /\ total_discharge_loss' = Zero
    /\ total_curtailment' = Zero
    /\ total_renewable_generated' = Zero
    /\ h' = 0
    /\ pc' = "loop"
    /\ UNCHANGED <<args, error, arr, summary, sweep, selector>>

\* Variant: every hour counted as an operating hour of the tier.
TierCount_EveryHour(count, mode, tier) ==
    count + (IF tier = "SHUTDOWN" THEN (IF mode = tier THEN 1 ELSE 0) ELSE 1)

\* hours_full += 1, hours_partial += 1 or hours_shutdown += 1 in the branch
\* of the hour's tier.
TierCount(count, mode, tier) == count + (IF mode = tier THEN 1 ELSE 0)

\* One iteration of `for h in range(n_hours)`.
Hour ==
    /\ pc = "loop"
    /\ h < n_hours
    /\ LET x == DispatchHour(config, bess_enabled, bess_max, bess_capacity,
                             pv_profile[h + 1], wind_profile[h + 1])
       IN  /\ total_renewable_generated' = RAdd(total_renewable_generated, x.renewable)
           /\ bess_capacity' = x.bess_capacity
           /\ hours_full' = TierCount(hours_full, x.operation_mode, "FIRM")
           /\ hours_partial' = TierCount(hours_partial, x.operation_mode, "SUPPLEMENTAL")
           /\ hours_shutdown' = TierCount(hours_shutdown, x.operation_mode, "SHUTDOWN")
           /\ h2_from_full' = IF x.operation_mode = "FIRM"
                              THEN RAdd(h2_from_full, x.h2_prod) ELSE h2_from_full
           /\ h2_from_partial' = IF x.operation_mode = "SUPPLEMENTAL"
                                 THEN RAdd(h2_from_partial, x.h2_prod) ELSE h2_from_partial
           /\ total_charge_loss' = RAdd(total_charge_loss, x.bess_charge_loss)
           /\ total_discharge_loss' = RAdd(total_discharge_loss, x.bess_discharge_loss)
           /\ total_curtailment' = RAdd(total_curtailment, x.curtailment)
           /\ total_energy_mwh' = RAdd(total_energy_mwh, x.electrolyzer_mw)
           /\ arr' = Append(arr, HourlyRecord(h, config.hydro_power_mw, x))
    /\ h' = h + 1
    /\ UNCHANGED <<args, pc, error, bess_enabled, bess_max, summary, sweep, selector>>

\* days_24h: the days (Hour // 24) of the hourly table whose rows are all FIRM.
Days24h(table) ==
    Cardinality({ d \in { table[i].Hour \div HoursPerDay : i \in 1..Len(table) } :
                    \A i \in 1..Len(table) :
                        table[i].Hour \div HoursPerDay = d => table[i].Operation_Mode = "FIRM" })

\* overall_cf = total_energy_mwh / (elec_cap * n_hours) * 100 divides by zero.
SummariseZeroDivision ==
    /\ pc = "loop"
    /\ h = n_hours
    /\ RMul(config.electrolyzer_capacity_mw, R(n_hours)) = Zero
    /\ pc' = "raised"
    /\ error' = "ZeroDivisionError"
    /\ UNCHANGED <<args, h, battery, counters, arr, summary, sweep, selector>>

\* The reduction of the run to its summary.
Summarise ==
    /\ pc = "loop"
    /\ h = n_hours
    /\ RMul(config.electrolyzer_capacity_mw, R(n_hours)) # Zero
    /\ LET elec_cap     == config.electrolyzer_capacity_mw
           overall_cf   == RMul(RDiv(total_energy_mwh, RMul(elec_cap, R(n_hours))), R(100))
           firm_cf      == RMul(Frac(hours_full, n_hours), R(100))
           utilization  == RMul(Frac(hours_full + hours_partial, n_hours), R(100))
           supplemental == RSub(overall_cf, firm_cf)
           curtail_pct  == IF RGt(total_renewable_generated, Zero)
                           THEN RMul(RDiv(total_curtailment, total_renewable_generated), R(100))
                           ELSE Zero
       IN  summary' =
             [ produced                 |-> TRUE,
               bess_size_mwh            |-> bess_size_mwh,
               overall_cf_pct           |-> Round(overall_cf, 2),
               firm_cf_pct              |-> Round(firm_cf, 2),
               supplemental_cf_pct      |-> Round(supplemental, 2),
               utilization_pct          |-> Round(utilization, 2),
               hours_full_capacity      |-> hours_full,
               hours_partial_capacity   |-> hours_partial,
               hours_shutdown           |-> hours_shutdown,
               operating_hours          |-> hours_full + hours_partial,
               days_full_24h            |-> Days24h(arr),
               total_energy_mwh         |-> Round(total_energy_mwh, 1),
               h2_from_full_kg          |-> Round(h2_from_full, 1),
               h2_from_partial_kg       |-> Round(h2_from_partial, 1),
               total_h2_kg              |-> Round(RAdd(h2_from_full, h2_from_partial), 1),
               total_renewable_gen_mwh  |-> Round(total_renewable_generated, 1),
               total_curtailment_mwh    |-> Round(total_curtailment, 1),
               curtailment_pct          |-> Round(curtail_pct, 2),
               total_charge_loss_mwh    |-> Round(total_charge_loss, 1),
               total_discharge_loss_mwh |-> Round(total_discharge_loss, 1) ]
    /\ pc' = "done"
    /\ UNCHANGED <<args, error, h, battery, counters, arr, sweep, selector>>

Next ==
    \/ EnterMismatch
    \/ Enter
    \/ Hour
    \/ SummariseZeroDivision
    \/ Summarise

Spec == Init /\ [][Next]_vars

(***************************************************************************)
(* run_pv_sensitivity and run_bess_sensitivity as a state machine.  Each   *)
(* run_dispatch call of the sweep is executed by the actions above.        *)
(***************************************************************************)
\* Bounds and input domains of the sweep.
SweepHours == 1
MaxSizes   == 2

\* <<pv, wind>> of one hour of the reference profiles.
SweepProfileHours == { <<300, 150>>, <<100, 50>> }

\* The scenario labels and their PV capacities (the defaults of pv_cases).
CaseLabels == { "1000 MW PV", "500 MW PV" }
CaseCapacity(label) == IF label = "1000 MW PV" THEN 1000 ELSE 500

\* pv_cases defaults: {"1000 MW PV": 1000.0, "500 MW PV": 500.0}
DefaultCases == << <<"1000 MW PV", R(1000)>>, <<"500 MW PV", R(500)>> >>

\* The dicts a caller may pass as pv_cases, in insertion order.
CaseLists ==
    { <<>> } \cup { << <<l, R(CaseCapacity(l))>> >> : l \in CaseLabels }
             \cup UNION { { << <<l, R(CaseCapacity(l))>>, <<m, R(CaseCapacity(m))>> >> :
                              m \in CaseLabels \ {l} } : l \in CaseLabels }

\* The sequences over S of 0..n elements.
SeqsFromZero(S, n) == IF n = 0 THEN { <<>> } ELSE { <<>> } \cup SeqsUpTo(S, n)

\* The configurations a sweep is called with.
SweepConfigs ==
    [ electrolyzer_capacity_mw : { R(0), R(500) },
      hydro_power_mw           : { R(250) },
      bess_max_power_mw        : { R(500) },
      bess_charge_eff          : { <<9, 10>> },
      bess_discharge_eff       : { <<9, 10>> },
      pv_capacity_mw           : { R(500) },
      wind_capacity_mw         : { R(1104) },
      h2_conversion_factor     : { R(40), R(50) } ]

\* The literal 1000.0 the reference profile is assumed to be normalised to.
Reference1000MW == 1000

\* The default of SystemConfig.h2_conversion_factor.
DefaultH2ConversionFactor == 50

\* No run_dispatch call is in progress.
RunIdle ==
    /\ pv_profile = <<>>
    /\ wind_profile = <<>>
    /\ bess_size_mwh = Zero
    /\ config = [ unused |-> TRUE ]
    /\ pc = "idle"
    /\ error = "none"
    /\ h = 0
    /\ bess_enabled = FALSE
    /\ bess_max = Zero
    /\ bess_capacity = Zero
    /\ total_energy_mwh = Zero
    /\ hours_full = 0
    /\ hours_partial = 0
    /\ hours_shutdown = 0
    /\ h2_from_full = Zero
    /\ h2_from_partial = Zero
    /\ total_charge_loss = Zero
    /\ total_discharge_loss = Zero
    /\ total_curtailment = Zero
    /\ total_renewable_generated = Zero
    /\ arr = <<>>
    /\ summary = NoSummary

\* The call of the sweep: reference PV profile, wind profile (possibly short
\* by its hour), battery sizes, configuration, pv_cases (or None) and an
\* optional callback.  A caller in the style of src/app.py also passes the
\* reference capacity of its profile.
SweepInit ==
    /\ \E hours \in SeqsUpTo(SweepProfileHours, SweepHours) :
          /\ pv_profile_1000mw = Column(hours, 1)
          /\ sw_wind_profile \in
                { Column(hours, 2) } \cup (IF Len(hours) = 1 THEN { <<>> } ELSE {})
    /\ bess_sizes \in SeqsFromZero({ R(b) : b \in BessSizes }, MaxSizes)
    /\ caller_config \in SweepConfigs
    /\ pv_cases \in { [ given |-> FALSE, items |-> <<>> ] }
                    \cup { [ given |-> TRUE, items |-> c ] : c \in CaseLists }
    /\ progress_callback \in BOOLEAN
    /\ pv_ref_mw \in { R(500), R(1000) }
    /\ call_style \in { "direct", "app" }
    /\ sw_pc = "call"
    /\ sw_error = "none"
    /\ case_idx = 0
    /\ idx = 0
    /\ scaled_pv = <<>>
    /\ cfg = [ unused |-> TRUE ]
    /\ results = <<>>
    /\ hourly_data = EmptyMap
    /\ pv_results = EmptyMap
    /\ notifications = <<>>
    /\ runs = <<>>
    /\ RunIdle
    /\ SelectorIdle

\* src/app.py passes seven positional arguments (pv_ref_mw the sixth) to a
\* function of six parameters: TypeError, nothing runs.
SweepCallTypeError ==
    /\ sw_pc = "call"
    /\ call_style = "app"
    /\ sw_pc' = "raised"
    /\ sw_error' = "TypeError"
    /\ UNCHANGED <<sweep_args, case_idx, idx, scaled_pv, cfg, results, hourly_data,
                   pv_results, notifications, runs>>
    /\ UNCHANGED <<args, pc, error, h, battery, counters, arr, summary, selector>>

\* run_pv_sensitivity is entered: pv_cases defaults when None.
SweepEnter ==
    /\ sw_pc = "call"
    /\ call_style = "direct"
    /\ pv_cases' = IF pv_cases.given THEN pv_cases
                   ELSE [ given |-> TRUE, items |-> DefaultCases ]
    /\ pv_results' = EmptyMap
    /\ case_idx' = 0
    /\ sw_pc' = "scenario"
    /\ UNCHANGED <<pv_profile_1000mw, sw_wind_profile, bess_sizes, caller_config,
                   progress_callback, pv_ref_mw, call_style, sw_error, idx, scaled_pv,
                   cfg, results, hourly_data, notifications, runs>>
    /\ UNCHANGED <<args, pc, error, h, battery, counters, arr, summary, selector>>

\* scale = pv_mw / 1000.0
Scale(pv_mw) == RDiv(pv_mw, R(Reference1000MW))

\* scaled_pv = pv_profile_1000mw * scale
ScaledProfile(profile, scale) == [ i \in 1..Len(profile) |-> RMul(profile[i], scale) ]

\* cfg = SystemConfig(...): the fields copied from the caller's config, the
\* scenario's pv_capacity_mw, and the default for the field not passed.
ScenarioConfig(caller, pv_mw) ==
    [ electrolyzer_capacity_mw |-> caller.electrolyzer_capacity_mw,
      hydro_power_mw           |-> caller.hydro_power_mw,
      bess_max_power_mw        |-> caller.bess_max_power_mw,
      bess_charge_eff          |-> caller.bess_charge_eff,
      bess_discharge_eff       |-> caller.bess_discharge_eff,
      pv_capacity_mw           |-> pv_mw,
      wind_capacity_mw         |-> caller.wind_capacity_mw,
      h2_conversion_factor     |-> R(DefaultH2ConversionFactor) ]

\* One iteration of `for label, pv_mw in pv_cases.items()` up to the call of
\* run_bess_sensitivity, and that function's entry.
ScenarioStart ==
    /\ sw_pc = "scenario"
    /\ case_idx < Len(pv_cases.items)
    /\ LET pv_mw == pv_cases.items[case_idx + 1][2]
       IN  /\ scaled_pv' = ScaledProfile(pv_profile_1000mw, Scale(pv_mw))
           /\ cfg' = ScenarioConfig(caller_config, pv_mw)
    /\ results' = <<>>
    /\ hourly_data' = EmptyMap
    /\ idx' = 0
    /\ sw_pc' = "size"
    /\ UNCHANGED <<sweep_args, sw_error, case_idx, pv_results, notifications, runs>>
    /\ UNCHANGED <<args, pc, error, h, battery, counters, arr, summary, selector>>

\* Variant: the callback given the position counted from 1.
Notification_OneBased(i, sizes) == <<i + 1, Len(sizes), sizes[i + 1]>>

\* progress_callback(idx, len(bess_sizes), bess_size)
Notification(i, sizes) == <<i, Len(sizes), sizes[i + 1]>>

\* One iteration of `for idx, bess_size in enumerate(bess_sizes)`: the
\* callback, when one was given.
SizeNotify ==
    /\ sw_pc = "size"
    /\ idx < Len(bess_sizes)
    /\ progress_callback
    /\ notifications' = Append(notifications, Notification(idx, bess_sizes))
    /\ sw_pc' = "dispatch"
    /\ UNCHANGED <<sweep_args, sw_error, case_idx, idx, scaled_pv, cfg, results,
                   hourly_data, pv_results, runs>>
    /\ UNCHANGED <<args, pc, error, h, battery, counters, arr, summary, selector>>

\* The entry of the run_dispatch calls made so far: what was passed and, once
\* the call has returned, what it returned.
RunEntry(label, pv, wind, size, conf) ==
    [ label |-> label, pv_profile |-> pv, wind_profile |-> wind,
      bess_size_mwh |-> size, config |-> conf,
      returned |-> FALSE, hourly |-> <<>>, summary |-> NoSummary ]

\* run_dispatch(pv_profile, wind_profile, bess_size, config) is called.
SizeDispatch ==
    /\ \/ sw_pc = "dispatch"
       \/ sw_pc = "size" /\ idx < Len(bess_sizes) /\ ~progress_callback
    /\ pv_profile' = scaled_pv
    /\ wind_profile' = sw_wind_profile
    /\ bess_size_mwh' = bess_sizes[idx + 1]
    /\ config' = cfg
    /\ pc' = "start"
    /\ error' = "none"
    /\ h' = 0
    /\ arr' = <<>>
    /\ summary' = NoSummary
    /\ runs' = Append(runs, RunEntry(pv_cases.items[case_idx + 1][1], scaled_pv,
                                     sw_wind_profile, bess_sizes[idx + 1], cfg))
    /\ sw_pc' = "running"
    /\ UNCHANGED <<sweep_args, sw_error, case_idx, idx, scaled_pv, cfg, results,
                   hourly_data, pv_results, notifications>>
    /\ UNCHANGED <<battery, counters, selector>>

\* Variant: each summary put in front of the ones collected before it.
AppendResult_Prepend(list, item) == <<item>> \o list

\* results.append(summary)
AppendResult(list, item) == Append(list, item)

\* hourly_data[bess_size] = hourly_df, pv_results[label] = {...}
MapPut(map, key, value) ==
    [ k \in (DOMAIN map) \cup {key} |-> IF k = key THEN value ELSE map[k] ]

\* run_dispatch has returned: its summary and hourly table are collected.
SizeCollect ==
    /\ sw_pc = "running"
    /\ pc = "done"
    /\ results' = AppendResult(results, summary)
    /\ hourly_data' = MapPut(hourly_data, bess_size_mwh, arr)
    /\ runs' = [ runs EXCEPT ![Len(runs)].returned = TRUE,
                             ![Len(runs)].hourly = arr,
                             ![Len(runs)].summary = summary ]
    /\ idx' = idx + 1
    /\ sw_pc' = "size"
    /\ UNCHANGED <<sweep_args, sw_error, case_idx, scaled_pv, cfg, pv_results, notifications>>
    /\ UNCHANGED <<args, pc, error, h, battery, counters, arr, summary, selector>>

\* run_dispatch has raised: the exception leaves both sweep functions.
SweepRaise ==
    /\ sw_pc = "running"
    /\ pc = "raised"
    /\ sw_pc' = "raised"
    /\ sw_error' = error
    /\ UNCHANGED <<sweep_args, case_idx, idx, scaled_pv, cfg, results, hourly_data,
                   pv_results, notifications, runs>>
    /\ UNCHANGED <<args, pc, error, h, battery, counters, arr, summary, selector>>

\* run_bess_sensitivity returns; pv_results[label] = {'summary', 'hourly'}.
ScenarioEnd ==
    /\ sw_pc = "size"
    /\ idx = Len(bess_sizes)
    /\ pv_results' = MapPut(pv_results, pv_cases.items[case_idx + 1][1],
                            [ summary |-> results, hourly |-> hourly_data ])
    /\ case_idx' = case_idx + 1
    /\ sw_pc' = "scenario"
    /\ UNCHANGED <<sweep_args, sw_error, idx, scaled_pv, cfg, results, hourly_data,
                   notifications, runs>>
    /\ UNCHANGED <<args, pc, error, h, battery, counters, arr, summary, selector>>

\* return pv_results
SweepReturn ==
    /\ sw_pc = "scenario"
    /\ case_idx = Len(pv_cases.items)
    /\ sw_pc' = "done"
    /\ UNCHANGED <<sweep_args, sw_error, case_idx, idx, scaled_pv, cfg, results,
                   hourly_data, pv_results, notifications, runs>>
    /\ UNCHANGED <<args, pc, error, h, battery, counters, arr, summary, selector>>

SweepNext ==
    \/ SweepCallTypeError
    \/ SweepEnter
    \/ ScenarioStart
    \/ SizeNotify
    \/ SizeDispatch
    \/ SizeCollect
    \/ SweepRaise
    \/ ScenarioEnd
    \/ SweepReturn
    \/ Next

SweepSpec == SweepInit /\ [][SweepNext]_vars

RECURSIVE TableFrom(_, _, _, _, _, _)
\* The rows of hours hour..n-1 of a run_dispatch call entered with `stored`
\* in the battery.
TableFrom(pv, wind, size, conf, hour, stored) ==
    IF hour >= Len(pv) THEN <<>>
    ELSE LET x == DispatchHour(conf, RGt(size, Zero),
                               IF RGt(size, Zero) THEN size ELSE DisabledBessMax,
                               stored, pv[hour + 1], wind[hour + 1])
         IN  <<HourlyRecord(hour, conf.hydro_power_mw, x)>>
                \o TableFrom(pv, wind, size, conf, hour + 1, x.bess_capacity)

\* The hourly table of run_dispatch(pv, wind, size, conf) called on its own.
StandaloneTable(pv, wind, size, conf) ==
    TableFrom(pv, wind, size, conf, 0, InitialBessCapacity(RGt(size, Zero), size))

(***************************************************************************)
(* One scenario swept over two battery sizes: the comparison of battery     *)
(* sizes that the results page draws.                                       *)
(***************************************************************************)
PairHours == 3

\* <<pv, wind>> of one hour.
PairProfileHours == { <<50, 0>>, <<200, 0>>, <<130, 0>> }

PairSizes == { 0, 190, 200 }

\* Target above the hydro baseload, SUPPLEMENTAL when the target is missed,
\* a power limit above every flow.
PairConfigs ==
    [ electrolyzer_capacity_mw : { R(500) },
      hydro_power_mw           : { R(250) },
      bess_max_power_mw        : { R(500) },
      bess_charge_eff          : { <<1, 2>>, <<1, 1>> },
      bess_discharge_eff       : { <<1, 1>> },
      pv_capacity_mw           : { R(1000) },
      wind_capacity_mw         : { R(1104) },
      h2_conversion_factor     : { R(50) } ]

\* run_pv_sensitivity called with equal-length profiles, one scenario at the
\* reference capacity and two battery sizes, the smaller first.
PairInit ==
    /\ \E hours \in SeqsUpTo(PairProfileHours, PairHours) :
          /\ pv_profile_1000mw = Column(hours, 1)
          /\ sw_wind_profile = Column(hours, 2)
    /\ \E small \in PairSizes : \E large \in { b \in PairSizes : b >= small } :
          bess_sizes = <<R(small), R(large)>>
    /\ caller_config \in PairConfigs
    /\ pv_cases = [ given |-> TRUE, items |-> << <<"1000 MW PV", R(1000)>> >> ]
    /\ progress_callback \in BOOLEAN
    /\ pv_ref_mw = R(1000)
    /\ call_style = "direct"
    /\ sw_pc = "call"
    /\ sw_error = "none"
    /\ case_idx = 0
    /\ idx = 0
    /\ scaled_pv = <<>>
    /\ cfg = [ unused |-> TRUE ]
    /\ results = <<>>
    /\ hourly_data = EmptyMap
    /\ pv_results = EmptyMap
    /\ notifications = <<>>
    /\ runs = <<>>
    /\ RunIdle
    /\ SelectorIdle

\* The steps such a call can take: its profiles have equal lengths, its
\* target is positive and it has the six arguments of the function, so no
\* step raises.
PairNext ==
    \/ SweepEnter
    \/ ScenarioStart
    \/ SizeNotify
    \/ SizeDispatch
    \/ SizeCollect
    \/ ScenarioEnd
    \/ SweepReturn
    \/ Enter
    \/ Hour
    \/ Summarise

PairSpec == PairInit /\ [][PairNext]_vars

(***************************************************************************)
(* get_representative_days as a state machine: the hourly table of a run   *)
(* over whole days, of which only Hour and Renewable_MW are read.          *)
(***************************************************************************)
MaxDays == 6

\* <<MW in hours 6..17, MW in the other hours>> of a day.
DayShapes == { <<100, 0>>, <<40, 10>>, <<0, 25>> }

\* The hourly table of the days of the given shapes, Hour counting from 0.
TableOfDays(shapes) ==
    [ i \in 1..(Len(shapes) * HoursPerDay) |->
        LET hour  == i - 1
            shape == shapes[(hour \div HoursPerDay) + 1]
            hod   == hour % HoursPerDay
        IN  [ Hour         |-> hour,
              Renewable_MW |-> R(IF hod >= 6 /\ hod <= 17 THEN shape[1] ELSE shape[2]) ] ]

\* abs() of a float.
RAbs(x) == <<Abs(x[1]), x[2]>>

\* df['Day'] = df['Hour'] // 24; df['Hour_of_Day'] = df['Hour'] % 24
WithDayColumns(df) ==
    [ i \in 1..Len(df) |->
        [ Hour         |-> df[i].Hour,
          Renewable_MW |-> df[i].Renewable_MW,
          Day          |-> df[i].Hour \div HoursPerDay,
          Hour_of_Day  |-> df[i].Hour % HoursPerDay ] ]

\* df[df['Day'] == day]
RowsOfDay(df, day) == SelectSeq(df, LAMBDA row : row.Day = day)

RECURSIVE SumRenewable(_, _, _)
\* The sum of Renewable_MW over rows lo..hi, added in halves.
SumRenewable(rows, lo, hi) ==
    IF lo > hi THEN Zero
    ELSE IF lo = hi THEN rows[lo].Renewable_MW
    ELSE RAdd(SumRenewable(rows, lo, (lo + hi) \div 2),
              SumRenewable(rows, ((lo + hi) \div 2) + 1, hi))

RECURSIVE DailyFrom(_, _, _)
\* The totals of the days day..last, one after the other.
DailyFrom(df, day, last) ==
    IF day > last THEN <<>>
    ELSE LET rows == RowsOfDay(df, day)
         IN  <<SumRenewable(rows, 1, Len(rows))>> \o DailyFrom(df, day + 1, last)

\* daily_renewable = df.groupby('Day')['Renewable_MW'].sum(): the total of
\* day d at position d + 1.
DailyRenewable(df) == DailyFrom(df, 0, df[Len(df)].Day)

RECURSIVE SortedOrders(_, _)
\* daily_renewable.sort_values().index: the days in ascending order of their
\* totals (the total of day d at totals[d + 1]).  The default sort is not stable, so days of equal total may
\* come out in any order.
SortedOrders(totals, days) ==
    IF days = {} THEN { <<>> }
    ELSE UNION { { <<d>> \o rest : rest \in SortedOrders(totals, days \ {d}) } :
                 d \in { x \in days : \A y \in days : RLe(totals[x + 1], totals[y + 1]) } }

\* Variant: the lower of the two middle positions.
MedianPosition_Lower(n) == (n - 1) \div 2

\* len(daily_renewable) // 2
MedianPosition(n) == n \div 2

RECURSIVE SortedValues(_, _)
\* The values at the given days in ascending order.
SortedValues(series, days) ==
    IF days = {} THEN <<>>
    ELSE LET least == CHOOSE x \in days : \A y \in days : RLe(series[x + 1], series[y + 1])
         IN  <<series[least + 1]>> \o SortedValues(series, days \ {least})

\* Series.quantile(q): linear interpolation between the two values around
\* position q * (n - 1) of the sorted values.
Quantile(series, q) ==
    LET n    == Len(series)
        pos  == RMul(q, R(n - 1))
        lo   == pos[1] \div pos[2]
        frac == RSub(pos, R(lo))
    IN  IF lo + 1 >= n THEN SortedValues(series, 0..(n - 1))[n]
        ELSE LET sorted == SortedValues(series, 0..(n - 1))
             IN  RAdd(sorted[lo + 1], RMul(frac, RSub(sorted[lo + 2], sorted[lo + 1])))

\* The quantile of the low-renewable day.
LowQuantile == <<1, 10>>

RECURSIVE IdxMinFrom_Last(_, _, _, _)
\* Variant: the last of the smallest values.
IdxMinFrom_Last(series, d, last, best) ==
    IF d > last THEN best
    ELSE IdxMinFrom_Last(series, d + 1, last,
                         IF RLe(series[d], series[best]) THEN d ELSE best)

RECURSIVE IdxMinFrom(_, _, _, _)
\* Series.idxmin(): the index of the first occurrence of the smallest value,
\* scanning days d..last with the best so far.
IdxMinFrom(series, d, last, best) ==
    IF d > last THEN best
    ELSE IdxMinFrom(series, d + 1, last,
                    IF RLt(series[d], series[best]) THEN d ELSE best)

SelInit ==
    /\ hourly_df \in { TableOfDays(shapes) : shapes \in SeqsUpTo(DayShapes, MaxDays) }
    /\ sel_pc = "call"
    /\ typical_day = <<>>
    /\ low_renewable_day = <<>>
    /\ RunIdle
    /\ SweepIdle

\* median_day: the day at the middle position of an ascending order.
MedianDays(daily_renewable) ==
    { order[MedianPosition(Len(daily_renewable)) + 1] :
        order \in SortedOrders(daily_renewable, 0..(Len(daily_renewable) - 1)) }

\* low_day = (daily_renewable - p10_value).abs().idxmin()
LowDay(daily_renewable) ==
    LET distance == [ d \in 0..(Len(daily_renewable) - 1) |->
                        RAbs(RSub(daily_renewable[d + 1],
                                  Quantile(daily_renewable, LowQuantile))) ]
    IN  IdxMinFrom(distance, 1, Len(daily_renewable) - 1, 0)

\* Every pair of tables get_representative_days can return for the table.
RepresentativeDays(table) ==
    LET df              == WithDayColumns(table)
        daily_renewable == DailyRenewable(df)
    IN  { <<RowsOfDay(df, median_day), RowsOfDay(df, LowDay(daily_renewable))>> :
            median_day \in MedianDays(daily_renewable) }

GetRepresentativeDays ==
    /\ sel_pc = "call"
    /\ \E returned \in RepresentativeDays(hourly_df) :
          /\ typical_day' = returned[1]
          /\ low_renewable_day' = returned[2]
    /\ sel_pc' = "done"
    /\ UNCHANGED hourly_df
    /\ UNCHANGED <<args, pc, error, h, battery, counters, arr, summary, sweep>>

SelNext == GetRepresentativeDays

SelSpec == SelInit /\ [][SelNext]_vars

(***************************************************************************)
(* Properties of the hourly table and the summary.                         *)
(***************************************************************************)
Rows == 1..Len(arr)

Modes == {"FIRM", "SUPPLEMENTAL", "SHUTDOWN"}

\* C1: in every hour the recorded contributions of hydro, PV, wind and the
\* battery sum to the delivered output.
C1_ContributionsSumToOutput ==
    \A i \in Rows :
        RAdd(RAdd(arr[i].Hydro_to_Elec_MW, arr[i].PV_to_Elec_MW),
             RAdd(arr[i].Wind_to_Elec_MW, arr[i].BESS_to_Elec_MW))
          = arr[i].Electrolyzer_MW

\* A FIRM hour in which hydro, PV, wind and the battery all deliver.
C1_Witness ==
    \E i \in Rows :
        /\ arr[i].Operation_Mode = "FIRM"
        /\ RGt(arr[i].Hydro_to_Elec_MW, Zero)
        /\ RGt(arr[i].PV_to_Elec_MW, Zero)
        /\ RGt(arr[i].Wind_to_Elec_MW, Zero)
        /\ RGt(arr[i].BESS_to_Elec_MW, Zero)
        /\ config.bess_discharge_eff # R(1)

\* C2: after every hour the stored energy lies in [0, battery capacity] and
\* the reported SOC in [0, 100].
C2_BatteryBounds ==
    /\ pc = "loop" =>
          /\ RLe(Zero, bess_capacity)
          /\ RLe(bess_capacity, bess_size_mwh)
    /\ \A i \in Rows :
          /\ RLe(Zero, arr[i].BESS_Capacity_MWh)
          /\ RLe(arr[i].BESS_Capacity_MWh, bess_size_mwh)
          /\ RLe(Zero, arr[i].BESS_SOC_pct)
          /\ RLe(arr[i].BESS_SOC_pct, R(100))

\* A discharge hour followed by a charge hour that fills the battery again.
C2_Witness ==
    \E i, j \in Rows :
        /\ i < j
        /\ RGt(arr[i].BESS_Discharge_Before_Eff_MWh, Zero)
        /\ RGt(arr[j].BESS_Charge_Before_Eff_MWh, Zero)
        /\ arr[j].BESS_Capacity_MWh = bess_size_mwh
        /\ arr[j].BESS_SOC_pct = R(100)

\* C3: every hour carries exactly one of the three tags, and the tag fixes
\* the delivered output: FIRM the target, SUPPLEMENTAL 250, SHUTDOWN 0.
C3_TierDeterminesOutput ==
    \A i \in Rows :
        /\ arr[i].Operation_Mode \in Modes
        /\ arr[i].Operation_Mode = "FIRM" =>
              arr[i].Electrolyzer_MW = config.electrolyzer_capacity_mw
        /\ arr[i].Operation_Mode = "SUPPLEMENTAL" => arr[i].Electrolyzer_MW = R(250)
        /\ arr[i].Operation_Mode = "SHUTDOWN" => arr[i].Electrolyzer_MW = Zero

\* A run with a FIRM hour and a SUPPLEMENTAL hour whose target is not 250.
C3_Witness ==
    /\ config.electrolyzer_capacity_mw # R(250)
    /\ \E i, j \in Rows :
          /\ arr[i].Operation_Mode = "FIRM"
          /\ arr[j].Operation_Mode = "SUPPLEMENTAL"

\* Stored energy carried into hour i of the table: the full battery for the
\* first hour, the previous hour's record afterwards.
StoredBefore(i) == IF i = 1 THEN bess_size_mwh ELSE arr[i - 1].BESS_Capacity_MWh

\* The energy potentially available in hour i, written from the raw inputs.
C4_Available(i) ==
    LET target == config.electrolyzer_capacity_mw
        hydro  == config.hydro_power_mw
        pv     == IF RLt(arr[i].PV_MW, Zero) THEN Zero ELSE arr[i].PV_MW
        stored == IF bess_size_mwh = Zero THEN Zero ELSE StoredBefore(i)
    IN  RAdd(RAdd(IF RLe(target, hydro) THEN target ELSE hydro,
                  RAdd(pv, arr[i].Wind_MW)),
             RMul(stored, config.bess_discharge_eff))

\* C4: an hour is FIRM iff min(target, hydro) + renewable + stored * discharge
\* efficiency >= target; otherwise SUPPLEMENTAL iff hydro >= 250; otherwise
\* SHUTDOWN.
C4_TierPriority ==
    \A i \in Rows :
        LET firm == RGe(C4_Available(i), config.electrolyzer_capacity_mw)
            supp == RGe(config.hydro_power_mw, R(250))
        IN  /\ arr[i].Operation_Mode = "FIRM" <=> firm
            /\ arr[i].Operation_Mode = "SUPPLEMENTAL" <=> (~firm /\ supp)
            /\ arr[i].Operation_Mode = "SHUTDOWN" <=> (~firm /\ ~supp)

\* An hour that is FIRM only thanks to the energy stored by an earlier hour.
C4_Witness ==
    \E i \in Rows :
        /\ i > 1
        /\ arr[i].Operation_Mode = "FIRM"
        /\ RGt(arr[i].BESS_to_Elec_MW, Zero)
        /\ StoredBefore(i) # bess_size_mwh

\* C5: the delivered output never exceeds the configured firm-power target.
C5_OutputAtMostTarget ==
    \A i \in Rows : RLe(arr[i].Electrolyzer_MW, config.electrolyzer_capacity_mw)

\* C6: curtailed energy is non-negative in every hour.
C6_CurtailmentNonNegative ==
    \A i \in Rows : RGe(arr[i].Curtailment_MW, Zero)

\* C7: after every prefix of hours cumulative curtailment is at most
\* cumulative renewable generation, and the summary's curtailment_pct <= 100.
C7_CurtailmentAtMostRenewable ==
    /\ RLe(total_curtailment, total_renewable_generated)
    /\ summary.produced => RLe(summary.curtailment_pct, R(100))

\* C8: charge_after = charge_before * charge efficiency and the charge loss
\* charge_before - charge_after is >= 0; the same for discharge.
C8_EfficiencyLosses ==
    \A i \in Rows :
        /\ arr[i].BESS_Charge_After_Eff_MWh =
              RMul(arr[i].BESS_Charge_Before_Eff_MWh, config.bess_charge_eff)
        /\ arr[i].BESS_Charge_Loss_MWh =
              RSub(arr[i].BESS_Charge_Before_Eff_MWh, arr[i].BESS_Charge_After_Eff_MWh)
        /\ RGe(arr[i].BESS_Charge_Loss_MWh, Zero)
        /\ arr[i].BESS_Discharge_After_Eff_MWh =
              RMul(arr[i].BESS_Discharge_Before_Eff_MWh, config.bess_discharge_eff)
        /\ arr[i].BESS_Discharge_Loss_MWh =
              RSub(arr[i].BESS_Discharge_Before_Eff_MWh, arr[i].BESS_Discharge_After_Eff_MWh)
        /\ RGe(arr[i].BESS_Discharge_Loss_MWh, Zero)

\* A run with a lossy discharge hour and a lossy charge hour.
C8_Witness ==
    \E i, j \in Rows :
        /\ RGt(arr[i].BESS_Discharge_Loss_MWh, Zero)
        /\ RGt(arr[j].BESS_Charge_Loss_MWh, Zero)

\* C9: with battery capacity 0 every hour has zero charge, discharge and
\* battery contribution, stored energy and SOC stay 0, and the run completes
\* without a division by zero.
C9_ZeroBatteryDisabled ==
    bess_size_mwh = Zero =>
        /\ \A i \in Rows :
              /\ arr[i].BESS_Charge_Before_Eff_MWh = Zero
              /\ arr[i].BESS_Charge_After_Eff_MWh = Zero
              /\ arr[i].BESS_Discharge_Before_Eff_MWh = Zero
              /\ arr[i].BESS_Discharge_After_Eff_MWh = Zero
              /\ arr[i].BESS_to_Elec_MW = Zero
              /\ arr[i].BESS_Capacity_MWh = Zero
              /\ arr[i].BESS_SOC_pct = Zero
        /\ error # "ZeroDivisionError"

\* C10: with a firm-power target of 0 a call with equal-length profiles does
\* not raise, every hour's Capacity_Factor_pct is 0 and the summary reports
\* overall_cf_pct 0.
C10_ZeroTargetReportsZero ==
    (config.electrolyzer_capacity_mw = Zero /\ Len(wind_profile) = n_hours) =>
        /\ \A i \in Rows : arr[i].Capacity_Factor_pct = Zero
        /\ pc # "raised"
        /\ (pc = "done" => summary.produced /\ summary.overall_cf_pct = Zero)

\* C11: a call with PV and wind profiles of different lengths fails with the
\* length assertion before any hour is simulated: no hourly record and no
\* summary is produced.
C11_MismatchFailsBeforeAnyHour ==
    Len(wind_profile) # Len(pv_profile) =>
        /\ pc \in {"start", "raised"}
        /\ pc = "raised" => error = "AssertionError"
        /\ h = 0
        /\ arr = <<>>
        /\ ~summary.produced

\* A call with a wind profile longer than the PV profile has been rejected.
C11_Witness ==
    /\ Len(wind_profile) > Len(pv_profile)
    /\ pc = "raised"
    /\ error = "AssertionError"

\* The energy available in hour i of a run without hydro: renewable plus the
\* deliverable stored energy.
C12_Available(i) ==
    RAdd(arr[i].Renewable_MW,
         RMul(IF bess_size_mwh = Zero THEN Zero ELSE StoredBefore(i),
              config.bess_discharge_eff))

\* C12 as stated: with hydro baseload 0 every hour is SHUTDOWN with delivered
\* output 0, whatever the renewable generation and the stored energy.
C12_ZeroHydroAlwaysShutdown ==
    config.hydro_power_mw = Zero =>
        \A i \in Rows :
            /\ arr[i].Operation_Mode = "SHUTDOWN"
            /\ arr[i].Electrolyzer_MW = Zero

\* C12 as amended: with hydro baseload 0 an hour is never SUPPLEMENTAL; it is
\* SHUTDOWN with delivered output 0 when renewable + stored energy * discharge
\* efficiency is below the target, and FIRM with the target delivered when
\* they reach it.
C12_ZeroHydroShutdownUnlessCovered ==
    config.hydro_power_mw = Zero =>
        \A i \in Rows :
            IF RLt(C12_Available(i), config.electrolyzer_capacity_mw)
            THEN /\ arr[i].Operation_Mode = "SHUTDOWN"
                 /\ arr[i].Electrolyzer_MW = Zero
            ELSE /\ arr[i].Operation_Mode = "FIRM"
                 /\ arr[i].Electrolyzer_MW = config.electrolyzer_capacity_mw

\* A run without hydro holding a FIRM hour carried by renewables and a
\* SHUTDOWN hour.
C12_Witness ==
    /\ config.hydro_power_mw = Zero
    /\ RGt(config.electrolyzer_capacity_mw, Zero)
    /\ \E i, j \in Rows :
          /\ arr[i].Operation_Mode = "FIRM"
          /\ arr[j].Operation_Mode = "SHUTDOWN"

\* shortfall = target - min(target, hydro)
C13_Shortfall ==
    RSub(config.electrolyzer_capacity_mw,
         IF RLe(config.electrolyzer_capacity_mw, config.hydro_power_mw)
         THEN config.electrolyzer_capacity_mw ELSE config.hydro_power_mw)

C13_ClampedPV(i) == IF RLt(arr[i].PV_MW, Zero) THEN Zero ELSE arr[i].PV_MW

\* C13: in a FIRM hour with renewable >= shortfall, PV and wind deliver the
\* shortfall in proportion to their shares of renewable and together deliver
\* exactly the shortfall; with renewable = 0 both deliver 0 and the shortfall
\* is 0.
C13_ProportionalSplit ==
    \A i \in Rows :
        (arr[i].Operation_Mode = "FIRM" /\ RGe(arr[i].Renewable_MW, C13_Shortfall)) =>
            /\ RAdd(arr[i].PV_to_Elec_MW, arr[i].Wind_to_Elec_MW) = C13_Shortfall
            /\ arr[i].Renewable_MW # Zero =>
                  /\ RMul(arr[i].PV_to_Elec_MW, arr[i].Renewable_MW)
                        = RMul(C13_ClampedPV(i), C13_Shortfall)
                  /\ RMul(arr[i].Wind_to_Elec_MW, arr[i].Renewable_MW)
                        = RMul(arr[i].Wind_MW, C13_Shortfall)
            /\ arr[i].Renewable_MW = Zero =>
                  /\ arr[i].PV_to_Elec_MW = Zero
                  /\ arr[i].Wind_to_Elec_MW = Zero
                  /\ C13_Shortfall = Zero

\* A renewable-sufficient FIRM hour with unequal PV and wind shares, and one
\* with no renewable generation at all.
C13_Witness ==
    \E i, j \in Rows :
        /\ arr[i].Operation_Mode = "FIRM"
        /\ RGe(arr[i].Renewable_MW, C13_Shortfall)
        /\ RGt(arr[i].Wind_to_Elec_MW, Zero)
        /\ RGt(arr[i].PV_to_Elec_MW, arr[i].Wind_to_Elec_MW)
        /\ arr[j].Operation_Mode = "FIRM"
        /\ arr[j].Renewable_MW = Zero

\* The calendar days of the hourly table that hold 24 hours, all FIRM.
C20_FullFirmDays ==
    { d \in { arr[i].Hour \div 24 : i \in Rows } :
        /\ Cardinality({ i \in Rows : arr[i].Hour \div 24 = d }) = 24
        /\ \A i \in Rows : arr[i].Hour \div 24 = d => arr[i].Operation_Mode = "FIRM" }

\* C20: days_full_24h is the number of calendar days whose 24 hours are all
\* FIRM; a day with fewer than 24 simulated hours is never counted.
C20_DaysFull24h ==
    summary.produced => summary.days_full_24h = Cardinality(C20_FullFirmDays)


(***************************************************************************)
(* Properties of the sweep.                                                *)
(***************************************************************************)
NSizes == Len(bess_sizes)
NCases == Len(pv_cases.items)

\* The scenario label and the battery size of the k-th pair, scenarios in
\* the order of pv_cases and, within a scenario, sizes in input order.
PairLabel(k) == pv_cases.items[((k - 1) \div NSizes) + 1][1]
PairSize(k)  == bess_sizes[((k - 1) % NSizes) + 1]
PairCapacity(k) == pv_cases.items[((k - 1) \div NSizes) + 1][2]

C15_ScaledByReferenceCapacity ==
    /\ sw_error # "TypeError"
    /\ \A k \in 1..Len(runs) :
          /\ Len(runs[k].pv_profile) = Len(pv_profile_1000mw)
          /\ \A i \in 1..Len(pv_profile_1000mw) :
                runs[k].pv_profile[i] =
                    RMul(pv_profile_1000mw[i], RDiv(PairCapacity(k), pv_ref_mw))

\* C16: every run is given the caller's wind profile and the caller's
\* target, hydro baseload, battery power limit, efficiencies, wind capacity
\* and hydrogen conversion factor.
C16_OtherFieldsFromCaller ==
    \A k \in 1..Len(runs) :
        /\ runs[k].wind_profile = sw_wind_profile
        /\ runs[k].config.electrolyzer_capacity_mw = caller_config.electrolyzer_capacity_mw
        /\ runs[k].config.hydro_power_mw = caller_config.hydro_power_mw
        /\ runs[k].config.bess_max_power_mw = caller_config.bess_max_power_mw
        /\ runs[k].config.bess_charge_eff = caller_config.bess_charge_eff
        /\ runs[k].config.bess_discharge_eff = caller_config.bess_discharge_eff
        /\ runs[k].config.wind_capacity_mw = caller_config.wind_capacity_mw
        /\ runs[k].config.h2_conversion_factor = caller_config.h2_conversion_factor

\* One notification per run, delivered before the run starts, in input
\* order, the k-th carrying <<first + position in the list, number of sizes,
\* size>>; none without a callback.
NotificationsInOrder(first) ==
    /\ ~progress_callback => notifications = <<>>
    /\ progress_callback =>
          Len(notifications) = Len(runs) + (IF sw_pc = "dispatch" THEN 1 ELSE 0)
    /\ \A k \in 1..Len(notifications) :
          /\ NSizes > 0
          /\ notifications[k] = <<first + ((k - 1) % NSizes), NSizes, PairSize(k)>>

\* A step that delivers a notification changes no result.
NotifyChangesNoResult ==
    notifications' # notifications =>
        UNCHANGED <<results, hourly_data, pv_results, runs, arr, summary, counters, battery>>

\* C17 as stated: one notification per battery size before its run starts,
\* carrying the 1-based index of the size (first 1, last total), the total
\* and the size, in input order, changing no result.
C17_OneBasedNotifications ==
    /\ [](progress_callback => NotificationsInOrder(1))
    /\ [][NotifyChangesNoResult]_vars

\* C17 amended: when a callback is supplied, one notification per battery
\* size before its run starts, carrying the 0-based index of the size (first
\* 0, last total - 1), the number of sizes and the size, in input order,
\* changing no result; without a callback there is none.
C17_ZeroBasedNotifications ==
    /\ []NotificationsInOrder(0)
    /\ [][NotifyChangesNoResult]_vars

C17_Witness ==
    /\ progress_callback
    /\ sw_pc = "done"
    /\ Len(notifications) = 4
    /\ notifications[2] = <<1, 2, R(0)>>


(***************************************************************************)
(* Properties of the representative days.                                  *)
(***************************************************************************)
\* The daily renewable totals of the table given to get_representative_days,
\* the total of day d at position d + 1.
DailyTotals == DailyRenewable(WithDayColumns(hourly_df))

NDays == Len(hourly_df) \div HoursPerDay

\* The number of days whose total is below, or at most, the total of day d.
DaysBelow(totals, d) ==
    Cardinality({ e \in 1..Len(totals) : RLt(totals[e], totals[d + 1]) })

DaysUpTo(totals, d) ==
    Cardinality({ e \in 1..Len(totals) : RLe(totals[e], totals[d + 1]) })

\* The rows are the 24 hourly records of day d of the table, in hour order,
\* each tagged with its hour of day and its day.
IsDay(rows, d) ==
    /\ Len(rows) = HoursPerDay
    /\ \A j \in 1..HoursPerDay :
          /\ rows[j].Hour = hourly_df[d * HoursPerDay + j].Hour
          /\ rows[j].Renewable_MW = hourly_df[d * HoursPerDay + j].Renewable_MW
          /\ rows[j].Hour \div HoursPerDay = d
          /\ rows[j].Hour_of_Day = rows[j].Hour % HoursPerDay
          /\ rows[j].Day = rows[j].Hour \div HoursPerDay

\* C18: the typical day is the 24 records of one day, whose total sits at
\* 0-based position floor(n_days / 2) of the daily totals sorted ascending;
\* each record carries hour-of-day = hour mod 24 and day = hour div 24.
C18_TypicalDayAtMedianPosition ==
    sel_pc = "done" =>
        \E daily \in { DailyTotals } :
            \E d \in 0..(NDays - 1) :
                /\ IsDay(typical_day, d)
                /\ DaysBelow(daily, d) <= NDays \div 2
                /\ DaysUpTo(daily, d) > NDays \div 2

C18_Witness ==
    /\ sel_pc = "done"
    /\ NDays = 6
    /\ DaysBelow(DailyTotals, typical_day[1].Day) = 3
    /\ DaysUpTo(DailyTotals, typical_day[1].Day) = 4

\* The 10th-percentile value of the daily totals.
P10OfTotals(totals) == Quantile(totals, LowQuantile)

\* The distance of the total of day d to the 10th-percentile value.
DistanceToP10(totals, p10, d) == RAbs(RSub(totals[d + 1], p10))

\* The day is as close to the value as any day, and closer than every
\* earlier day.
FirstNearest(series, p10_value, day) ==
    \A other \in 0..(Len(series) - 1) :
        /\ RLe(DistanceToP10(series, p10_value, day),
               DistanceToP10(series, p10_value, other))
        /\ other < day =>
              RLt(DistanceToP10(series, p10_value, day),
                  DistanceToP10(series, p10_value, other))

\* C19: the low-renewable day is the day whose total is nearest to the
\* 10th-percentile value of the daily totals; of several equally near days
\* it is the one with the smallest day index.
C19_LowDayNearestToP10 ==
    sel_pc = "done" =>
        \E daily \in { DailyTotals } :
            \E value \in { P10OfTotals(daily) } :
                \E d \in 0..(NDays - 1) :
                    /\ IsDay(low_renewable_day, d)
                    /\ FirstNearest(daily, value, d)

\* The day is not a day of smallest total, and a later day with another
\* total is as near to the 10th-percentile value.
NotMinimumAndTied(series, p10_value, day) ==
    /\ DaysBelow(series, day) > 0
    /\ \E other \in (day + 1)..(Len(series) - 1) :
          /\ series[other + 1] # series[day + 1]
          /\ DistanceToP10(series, p10_value, other) =
                 DistanceToP10(series, p10_value, day)

C19_Witness ==
    /\ sel_pc = "done"
    /\ NotMinimumAndTied(DailyTotals, P10OfTotals(DailyTotals), low_renewable_day[1].Day)

(***************************************************************************)
(* Further properties of the sweep, the hourly table and the summary.      *)
(***************************************************************************)
\* C21: a sweep called with an empty battery-size list or an empty scenario
\* mapping does not return a result: it ends with an error.
C21_EmptyInputsRejected ==
    (NSizes = 0 \/ (pv_cases.given /\ NCases = 0)) => sw_pc # "done"

\* The number of rows of the hourly table tagged with the tier.
RowsTagged(tier) == Cardinality({ i \in Rows : arr[i].Operation_Mode = tier })

\* C22: the tier hour counts equal the numbers of hourly records carrying
\* the tier; in the summary they add up to the number of simulated hours and
\* operating_hours is the FIRM plus the SUPPLEMENTAL count; the hourly table
\* has one record per input hour, Hour running 0..n-1 in order.
C22_CountsMatchTable ==
    /\ pc \in {"loop", "done"} =>
          /\ Len(arr) = h
          /\ hours_full = RowsTagged("FIRM")
          /\ hours_partial = RowsTagged("SUPPLEMENTAL")
          /\ hours_shutdown = RowsTagged("SHUTDOWN")
    /\ \A i \in Rows : arr[i].Hour = i - 1
    /\ pc = "done" =>
          /\ Len(arr) = n_hours
          /\ summary.hours_full_capacity = RowsTagged("FIRM")
          /\ summary.hours_partial_capacity = RowsTagged("SUPPLEMENTAL")
          /\ summary.hours_shutdown = RowsTagged("SHUTDOWN")
          /\ summary.hours_full_capacity + summary.hours_partial_capacity
                + summary.hours_shutdown = n_hours
          /\ summary.operating_hours =
                summary.hours_full_capacity + summary.hours_partial_capacity

\* A finished run of three hours, two FIRM and one SUPPLEMENTAL.
C22_Witness ==
    /\ pc = "done"
    /\ n_hours = 3
    /\ summary.hours_full_capacity = 2
    /\ summary.hours_partial_capacity = 1
    /\ summary.hours_shutdown = 0


\* Hour i is of a tier and sub-case in which energy is offered to the battery.
C23_Offers(i) ==
    arr[i].Operation_Mode = "FIRM" => RGe(arr[i].Renewable_MW, C13_Shortfall)

\* The energy on offer in hour i: the renewable surplus over the shortfall
\* in a FIRM hour, the renewable generation in a SUPPLEMENTAL hour, hydro plus
\* renewable in a SHUTDOWN hour.
C23_OnOffer(i) ==
    CASE arr[i].Operation_Mode = "FIRM" -> RSub(arr[i].Renewable_MW, C13_Shortfall)
      [] arr[i].Operation_Mode = "SUPPLEMENTAL" -> arr[i].Renewable_MW
      [] arr[i].Operation_Mode = "SHUTDOWN" ->
            RAdd(config.hydro_power_mw, arr[i].Renewable_MW)

\* C23: whenever the battery charges, the amount offered is min(energy on
\* offer, power limit, (capacity - stored) / charge efficiency), the stored
\* energy rises by offered * charge efficiency and the curtailment is the
\* energy on offer minus the amount offered; with a full or disabled battery
\* the whole energy on offer is curtailed.
C23_ChargeRule ==
    \A i \in Rows :
        /\ RGt(arr[i].BESS_Charge_Before_Eff_MWh, Zero) =>
              /\ C23_Offers(i)
              /\ arr[i].BESS_Charge_Before_Eff_MWh =
                    RMin3(C23_OnOffer(i), config.bess_max_power_mw,
                          RDiv(RSub(bess_size_mwh, StoredBefore(i)), config.bess_charge_eff))
              /\ arr[i].BESS_Capacity_MWh =
                    RAdd(StoredBefore(i),
                         RMul(arr[i].BESS_Charge_Before_Eff_MWh, config.bess_charge_eff))
              /\ arr[i].Curtailment_MW =
                    RSub(C23_OnOffer(i), arr[i].BESS_Charge_Before_Eff_MWh)
        /\ (C23_Offers(i) /\ StoredBefore(i) = bess_size_mwh) =>
              /\ arr[i].BESS_Charge_Before_Eff_MWh = Zero
              /\ arr[i].BESS_Capacity_MWh = StoredBefore(i)
              /\ arr[i].Curtailment_MW = C23_OnOffer(i)

\* A run with an hour whose charge is cut to the power limit, the rest being
\* curtailed, and an hour in which a full battery leaves a surplus curtailed.
C23_Witness ==
    \E i, j \in Rows :
        /\ arr[i].BESS_Charge_Before_Eff_MWh = config.bess_max_power_mw
        /\ RGt(arr[i].Curtailment_MW, Zero)
        /\ RLt(arr[i].BESS_Capacity_MWh, bess_size_mwh)
        /\ config.bess_charge_eff # R(1)
        /\ C23_Offers(j)
        /\ StoredBefore(j) = bess_size_mwh
        /\ RGt(bess_size_mwh, Zero)
        /\ RGt(arr[j].Curtailment_MW, Zero)

C25_SameArguments(j, k) ==
    /\ runs[j].pv_profile = runs[k].pv_profile
    /\ runs[j].wind_profile = runs[k].wind_profile
    /\ runs[j].bess_size_mwh = runs[k].bess_size_mwh
    /\ runs[j].config = runs[k].config

C26_PowerLimitBothWays ==
    \A i \in Rows :
        /\ RLe(arr[i].BESS_Charge_Before_Eff_MWh, config.bess_max_power_mw)
        /\ RLe(arr[i].BESS_Discharge_Before_Eff_MWh, config.bess_max_power_mw)

\* C27: the stored energy after hour i is the stored energy before it plus
\* the energy charged after losses minus the energy withdrawn, starting from
\* the battery capacity; no hour both charges and discharges; only FIRM hours
\* discharge; an hour with neither flow leaves the stored energy unchanged.
C27_StoredEnergyBalance ==
    /\ pc = "loop" =>
          bess_capacity = (IF h = 0 THEN bess_size_mwh ELSE arr[h].BESS_Capacity_MWh)
    /\ \A i \in Rows :
          /\ arr[i].BESS_Capacity_MWh =
                RSub(RAdd(StoredBefore(i), arr[i].BESS_Charge_After_Eff_MWh),
                     arr[i].BESS_Discharge_Before_Eff_MWh)
          /\ ~ (RGt(arr[i].BESS_Charge_Before_Eff_MWh, Zero)
                /\ RGt(arr[i].BESS_Discharge_Before_Eff_MWh, Zero))
          /\ RGt(arr[i].BESS_Discharge_Before_Eff_MWh, Zero) =>
                arr[i].Operation_Mode = "FIRM"
          /\ (arr[i].BESS_Charge_Before_Eff_MWh = Zero
              /\ arr[i].BESS_Discharge_Before_Eff_MWh = Zero) =>
                arr[i].BESS_Capacity_MWh = StoredBefore(i)

\* A run with a lossy discharge hour, then a lossy charge hour, then an hour
\* without any flow.
C27_Witness ==
    \E i, j, k \in Rows :
        /\ i < j
        /\ j < k
        /\ RGt(arr[i].BESS_Discharge_Loss_MWh, Zero)
        /\ RGt(arr[j].BESS_Charge_Loss_MWh, Zero)
        /\ arr[k].BESS_Charge_Before_Eff_MWh = Zero
        /\ arr[k].BESS_Discharge_Before_Eff_MWh = Zero

\* C28: in FIRM and SUPPLEMENTAL hours renewable = PV_to_Elec + Wind_to_Elec
\* + charge_before + curtailment; in SHUTDOWN hours hydro + renewable =
\* charge_before + curtailment.
C28_RenewableAccounted ==
    \A i \in Rows :
        LET recorded == RAdd(RAdd(arr[i].PV_to_Elec_MW, arr[i].Wind_to_Elec_MW),
                             RAdd(arr[i].BESS_Charge_Before_Eff_MWh, arr[i].Curtailment_MW))
        IN  IF arr[i].Operation_Mode = "SHUTDOWN"
            THEN /\ recorded = RAdd(arr[i].Hydro_MW, arr[i].Renewable_MW)
                 /\ arr[i].PV_to_Elec_MW = Zero
                 /\ arr[i].Wind_to_Elec_MW = Zero
            ELSE recorded = arr[i].Renewable_MW

\* A run with a FIRM hour to which PV and wind deliver and a SHUTDOWN hour
\* whose hydro and renewable energy is partly charged and partly curtailed.
C28_Witness ==
    \E i, j \in Rows :
        /\ arr[i].Operation_Mode = "FIRM"
        /\ RGt(arr[i].PV_to_Elec_MW, Zero)
        /\ RGt(arr[i].Wind_to_Elec_MW, Zero)
        /\ arr[j].Operation_Mode = "SHUTDOWN"
        /\ RGt(arr[j].Hydro_MW, Zero)
        /\ RGt(arr[j].BESS_Charge_Before_Eff_MWh, Zero)
        /\ RGt(arr[j].Curtailment_MW, Zero)

\* C29: of two returned runs on the same profiles and configuration, the one
\* with the larger battery has at least as many FIRM hours and at least as
\* high a firm capacity factor.
C29_LargerBatteryNoFewerFirmHours ==
    \A j, k \in 1..Len(runs) :
        (/\ runs[j].returned
         /\ runs[k].returned
         /\ runs[j].pv_profile = runs[k].pv_profile
         /\ runs[j].wind_profile = runs[k].wind_profile
         /\ runs[j].config = runs[k].config
         /\ RLe(runs[j].bess_size_mwh, runs[k].bess_size_mwh)) =>
            /\ runs[j].summary.hours_full_capacity <= runs[k].summary.hours_full_capacity
            /\ RLe(runs[j].summary.firm_cf_pct, runs[k].summary.firm_cf_pct)

====
